---- MODULE Spec2Model ----
(***************************************************************************)
(* The risk-interaction network engine of the climate risk assessment      *)
(* tool: pairwise interaction scoring (analyze_risk_interactions), score   *)
(* extraction and classification, and construction of the risk network     *)
(* (build_risk_network), as called by conduct_advanced_risk_analysis.      *)
(*                                                                         *)
(* Floats are modelled exactly as fixed-point integers: a float v is the   *)
(* integer v * Scale.  Every number the regex can cut out of a text of at  *)
(* most MaxText characters has at most MaxText - 1 fractional digits, so   *)
(* the representation is exact, and the comparisons with the literals 0.3  *)
(* and 0.7 agree with IEEE doubles (no decimal of so few digits lies       *)
(* within half an ulp of 0.3 or 0.7 without being equal to it).            *)
(***************************************************************************)
EXTENDS Integers, Sequences, FiniteSets, TLC

VARIABLES
    pc,                 \* position of the run
    risks,              \* the risk list, as the sequence of the risks' ids
    i, j,               \* loop indices of analyze_risk_interactions (1-based)
    interactions,       \* local list `interactions` of analyze_risk_interactions
    risk_interactions,  \* the interaction list held by the caller
    risk_network,       \* the graph returned by build_risk_network
    rebuilt_inputs,     \* inputs of a second call of build_risk_network
    rebuilt_network,    \* the graph returned by that second call
    initial_risks,      \* analyze_risk_cascades: the seed list
    threshold,          \* analyze_risk_cascades: the activation threshold
    max_steps,          \* analyze_risk_cascades: the step budget
    step,               \* propagation steps completed so far
    cascade_progression, \* dict node -> list of activations
    feedback_loops,     \* result of identify_risk_feedback_loops
    trigger_points,     \* result of identify_trigger_points
    resilience_metrics, \* result of analyze_network_resilience
    clusters,           \* result of detect_risk_clusters
    simulation_results, \* ids that have simulation results
    correlations        \* keys of the result of calculate_risk_correlations

\* the variables of the analyzers that read the built graph
analysis_vars == <<initial_risks, threshold, max_steps, step,
                   cascade_progression, feedback_loops, trigger_points,
                   resilience_metrics, clusters, simulation_results,
                   correlations>>

vars == <<pc, risks, i, j, interactions, risk_interactions, risk_network,
          rebuilt_inputs, rebuilt_network, analysis_vars>>

----------------------------------------------------------------------------
(* Bounds of the model *)

\* longest oracle response text, in characters
MaxText == 4
\* risk ids are 1..MaxId
MaxId == 3
\* longest risk list
MaxRisks == 3
\* longest caller-supplied interaction list
MaxInter == 2

\* fixed-point unit: the float 1.0
Scale == 10 ^ (MaxText - 1)

----------------------------------------------------------------------------
(* Texts: sequences of characters.  "x" stands for any character that is   *)
(* neither a digit, a sign nor a dot (letters, blanks, punctuation).       *)

DigitChars == <<"0", "1", "2", "3", "4", "5", "6", "7", "8", "9">>
Digit == {DigitChars[k] : k \in 1..Len(DigitChars)}
Sign == {"-", "+"}
Char == Digit \cup Sign \cup {".", "x"}

SeqsUpTo(S, n) == UNION {[1..k -> S] : k \in 0..n}

Texts == SeqsUpTo(Char, MaxText)

DigitVal(c) == (CHOOSE k \in 1..Len(DigitChars) : DigitChars[k] = c) - 1

\* index just after the maximal run of digits of t that starts at p
RECURSIVE DigitRunEnd(_, _)
DigitRunEnd(t, p) ==
    IF p <= Len(t) /\ t[p] \in Digit THEN DigitRunEnd(t, p + 1) ELSE p

\* value of a string of digits, most significant first
RECURSIVE DigitsValue(_)
DigitsValue(ds) ==
    IF ds = <<>> THEN 0
    ELSE 10 * DigitsValue(SubSeq(ds, 1, Len(ds) - 1)) + DigitVal(ds[Len(ds)])

----------------------------------------------------------------------------
(* re.findall(r"[-+]?\d*\.\d+|\d+", analysis)                              *)

\* first alternative [-+]?\d*\.\d+ at p: index just after the match, 0 if none.
\* Backtracking finds nothing more: without the sign the match would have to
\* start at the sign character, and a shorter \d* is followed by a digit.
Alt1End(t, p) ==
    LET s == IF p <= Len(t) /\ t[p] \in Sign THEN p + 1 ELSE p
        d == DigitRunEnd(t, s)
        e == DigitRunEnd(t, d + 1)
    IN  IF d <= Len(t) /\ t[d] = "." /\ e > d + 1 THEN e ELSE 0

\* second alternative \d+ at p
Alt2End(t, p) ==
    IF p <= Len(t) /\ t[p] \in Digit THEN DigitRunEnd(t, p) ELSE 0

MatchEnd(t, p) ==
    IF Alt1End(t, p) # 0 THEN Alt1End(t, p) ELSE Alt2End(t, p)

\* the non-overlapping matches from position p on, left to right
RECURSIVE FindAllFrom(_, _)
FindAllFrom(t, p) ==
    IF p > Len(t) THEN <<>>
    ELSE LET e == MatchEnd(t, p)
         IN  IF e # 0 THEN <<SubSeq(t, p, e - 1)>> \o FindAllFrom(t, e)
             ELSE FindAllFrom(t, p + 1)

FindAll(t) == FindAllFrom(t, 1)

\* float(token) of a token the regex matched, times Scale
ToFloat(tok) ==
    LET neg   == tok[1] = "-"
        body  == IF tok[1] \in Sign THEN SubSeq(tok, 2, Len(tok)) ELSE tok
        d     == DigitRunEnd(body, 1)
        whole == DigitsValue(SubSeq(body, 1, d - 1))
        frac  == IF d <= Len(body) THEN SubSeq(body, d + 1, Len(body)) ELSE <<>>
        mag   == whole * Scale + DigitsValue(frac) * (Scale \div (10 ^ Len(frac)))
    IN  IF neg THEN 0 - mag ELSE mag

\* the float k/10, for a digit k
Tenths(k) == (k * Scale) \div 10

\* the default score 0.5
DefaultScore == Tenths(5)

extract_interaction_score(analysis) ==
    LET numbers == FindAll(analysis)
    IN  IF numbers # <<>> THEN ToFloat(numbers[Len(numbers)]) ELSE DefaultScore

\* the boundaries made exclusive (<= for <)
determine_interaction_type_Exclusive(score) ==
    IF score <= Tenths(3) THEN "Weak"
    ELSE IF score <= Tenths(7) THEN "Moderate"
    ELSE "Strong"

determine_interaction_type(score) ==
    IF score < Tenths(3) THEN "Weak"
    ELSE IF score < Tenths(7) THEN "Moderate"
    ELSE "Strong"

RiskInteraction(r1, r2, score, type, analysis) ==
    [risk1_id |-> r1, risk2_id |-> r2, interaction_score |-> score,
     interaction_type |-> type, analysis |-> analysis]

----------------------------------------------------------------------------
(* networkx.Graph: the node set and the adjacency dict-of-dicts.  adj[u][v] *)
(* is the attribute dict of edge u-v; an undirected graph keeps it under   *)
(* both adj[u][v] and adj[v][u].                                           *)

EmptyGraph == [nodes |-> {}, adj |-> <<>>]

\* d[k] = v, in a dict
Put(d, k, v) == [x \in (DOMAIN d) \cup {k} |-> IF x = k THEN v ELSE d[x]]

\* G.add_node(n): a node already present keeps its adjacency
add_node(G, n) ==
    IF n \in G.nodes THEN G
    ELSE [nodes |-> G.nodes \cup {n}, adj |-> Put(G.adj, n, <<>>)]

\* the edge stored under adj[u][v] only, as a directed graph would
add_edge_OneWay(G, u, v, w, ty) ==
    LET G1   == add_node(add_node(G, u), v)
        data == [weight |-> w, type |-> ty]
    IN  [nodes |-> G1.nodes, adj |-> Put(G1.adj, u, Put(G1.adj[u], v, data))]

\* G.add_edge(u, v, weight=w, type=ty): adds absent end nodes, then stores
\* the attributes under both directions; an edge already present has its
\* weight and type overwritten.
add_edge(G, u, v, w, ty) ==
    LET G1   == add_node(add_node(G, u), v)
        data == [weight |-> w, type |-> ty]
        adj1 == Put(G1.adj, u, Put(G1.adj[u], v, data))
        adj2 == Put(adj1, v, Put(adj1[v], u, data))
    IN  [nodes |-> G1.nodes, adj |-> adj2]

\* for risk in risks: G.add_node(risk.id, ...)
RECURSIVE AddNodes(_, _)
AddNodes(G, rs) ==
    IF rs = <<>> THEN G ELSE AddNodes(add_node(G, Head(rs)), Tail(rs))

\* for interaction in interactions: G.add_edge(...)
RECURSIVE AddEdges(_, _)
AddEdges(G, ins) ==
    IF ins = <<>> THEN G
    ELSE AddEdges(add_edge(G, Head(ins).risk1_id, Head(ins).risk2_id,
                           Head(ins).interaction_score,
                           Head(ins).interaction_type),
                  Tail(ins))

build_risk_network(rs, ins) == AddEdges(AddNodes(EmptyGraph, rs), ins)

\* G.neighbors(n), G[u][v]['weight'], G[u][v]['type'], len(G.nodes), len(G.edges)
Neighbors(G, n) == DOMAIN G.adj[n]
HasEdge(G, u, v) == u \in G.nodes /\ v \in Neighbors(G, u)
Weight(G, u, v) == G.adj[u][v].weight
EdgeType(G, u, v) == G.adj[u][v].type
Edges(G) == {{e[1], e[2]} : e \in {e \in G.nodes \X G.nodes : e[2] \in Neighbors(G, e[1])}}
NumNodes(G) == Cardinality(G.nodes)
NumEdges(G) == Cardinality(Edges(G))

----------------------------------------------------------------------------
(* analyze_risk_interactions: one step per oracle call.  (i, j) is the     *)
(* pair of positions the loops are at; the loops are over when j > n.      *)

RiskIds == 1..MaxId
RiskLists == SeqsUpTo(RiskIds, MaxRisks)

\* the responses the oracle gives in a full run: a text with no number, a
\* score inside [0,1], and a number on another scale ("7", as in 7 out of 10)
OracleReplies ==
    { <<"x">>,
      <<"0", ".", "2">>,
      <<"7">> }

LoopDone == j > Len(risks)

\* the inner loop started at the outer position (risks[i:] for risks[i+1:])
NextPair_FromSelf(a, b, n) == IF b < n THEN <<a, b + 1>> ELSE <<a + 1, a + 1>>

\* the next pair of the nested loops after (a, b), over a list of n risks
NextPair(a, b, n) == IF b < n THEN <<a, b + 1>> ELSE <<a + 1, a + 2>>

\* lines 17-39: the oracle answers `analysis` for the pair at hand
ScoreStep(replies) ==
    /\ pc = "scoring"
    /\ ~LoopDone
    /\ \E analysis \in replies :
         LET interaction_score == extract_interaction_score(analysis)
             interaction_type == determine_interaction_type(interaction_score)
         IN  interactions' = Append(interactions,
                 RiskInteraction(risks[i], risks[j], interaction_score,
                                 interaction_type, analysis))
    /\ i' = NextPair(i, j, Len(risks))[1]
    /\ j' = NextPair(i, j, Len(risks))[2]
    /\ UNCHANGED <<pc, risks, risk_interactions, risk_network,
                   rebuilt_inputs, rebuilt_network>>
    /\ UNCHANGED analysis_vars

ScorePair == ScoreStep(OracleReplies)

\* the failure caught and the pair skipped
OracleRaises_Skipped ==
    /\ pc = "scoring"
    /\ ~LoopDone
    /\ i' = NextPair(i, j, Len(risks))[1]
    /\ j' = NextPair(i, j, Len(risks))[2]
    /\ UNCHANGED <<pc, risks, interactions, risk_interactions, risk_network,
                   rebuilt_inputs, rebuilt_network>>
    /\ UNCHANGED analysis_vars

\* lines 26-34: the oracle call raises; nothing catches it in
\* analyze_risk_interactions nor in conduct_advanced_risk_analysis
OracleRaises ==
    /\ pc = "scoring"
    /\ ~LoopDone
    /\ pc' = "raised"
    /\ UNCHANGED <<risks, i, j, interactions, risk_interactions, risk_network,
                   rebuilt_inputs, rebuilt_network>>
    /\ UNCHANGED analysis_vars

\* line 41, and advanced_analysis.py line 28: the list is handed to the caller
ReturnInteractions ==
    /\ pc = "scoring"
    /\ LoopDone
    /\ risk_interactions' = interactions
    /\ pc' = "scored"
    /\ UNCHANGED <<risks, i, j, interactions, risk_network,
                   rebuilt_inputs, rebuilt_network>>
    /\ UNCHANGED analysis_vars
\* a graph that is rebuilt while the pairs are still being scored
BuildNetwork_Early ==
    /\ pc = "scoring"
    /\ risk_network' = build_risk_network(risks, interactions)
    /\ risk_network' # risk_network
    /\ UNCHANGED <<pc, risks, i, j, interactions, risk_interactions,
                   rebuilt_inputs, rebuilt_network>>
    /\ UNCHANGED analysis_vars

\* advanced_analysis.py line 29
BuildNetwork ==
    /\ pc = "scored"
    /\ risk_network' = build_risk_network(risks, risk_interactions)
    /\ pc' = "built"
    /\ UNCHANGED <<risks, i, j, interactions, risk_interactions,
                   rebuilt_inputs, rebuilt_network>>
    /\ UNCHANGED analysis_vars

NoInputs == [risks |-> <<>>, interactions |-> <<>>]

\* the ids of a list of risks
Ids(rs) == {rs[k] : k \in 1..Len(rs)}

\* no analyzer has been called
NoAnalysis ==
    /\ initial_risks = <<>>
    /\ threshold = 0
    /\ max_steps = 0
    /\ step = 0
    /\ cascade_progression = <<>>
    /\ feedback_loops = {}
    /\ trigger_points = <<>>
    /\ resilience_metrics = <<>>
    /\ clusters = <<>>
    /\ simulation_results = {}
    /\ correlations = {}

\* conduct_advanced_risk_analysis, entered with a risk list
Init ==
    /\ risks \in RiskLists
    /\ pc = "scoring"
    /\ i = 1
    /\ j = 2
    /\ interactions = <<>>
    /\ risk_interactions = <<>>
    /\ risk_network = EmptyGraph
    /\ rebuilt_inputs = NoInputs
    /\ rebuilt_network = EmptyGraph
    /\ NoAnalysis

Next == ScorePair \/ OracleRaises \/ ReturnInteractions \/ BuildNetwork

Spec == Init /\ [][Next]_vars

----------------------------------------------------------------------------
(* The scoring of one pair, over every response text of the bound.         *)

ScoreText == ScoreStep(Texts)

InitScore ==
    /\ risks = <<1, 2>>
    /\ pc = "scoring"
    /\ i = 1
    /\ j = 2
    /\ interactions = <<>>
    /\ risk_interactions = <<>>
    /\ risk_network = EmptyGraph
    /\ rebuilt_inputs = NoInputs
    /\ rebuilt_network = EmptyGraph
    /\ NoAnalysis

NextScore == ScoreText \/ ReturnInteractions

SpecScore == InitScore /\ [][NextScore]_vars

----------------------------------------------------------------------------
(* build_risk_network called with a caller's own lists, as the tests do:   *)
(* risks with distinct ids, and any interactions over the ids, hand-made   *)
(* with the scores and types of the test fixtures.                         *)

\* the lists of distinct ids, ascending (Rebuild reorders them)
AscendingRiskLists ==
    {rs \in RiskLists : \A k \in 1..(Len(rs) - 1) : rs[k] < rs[k + 1]}

CallerAttrs == { <<Tenths(4), "Moderate">>, <<Tenths(8), "Strong">> }

CallerInteractions ==
    {RiskInteraction(a, b, at[1], at[2], <<>>) : a \in RiskIds, b \in RiskIds, at \in CallerAttrs}

InitGraph ==
    /\ risks \in AscendingRiskLists
    /\ risk_interactions \in SeqsUpTo(CallerInteractions, MaxInter)
    /\ pc = "scored"
    /\ i = 1
    /\ j = 2
    /\ interactions = <<>>
    /\ risk_network = EmptyGraph
    /\ rebuilt_inputs = NoInputs
    /\ rebuilt_network = EmptyGraph
    /\ NoAnalysis

NextGraph == BuildNetwork

SpecGraph == InitGraph /\ [][NextGraph]_vars

\* s with the elements at positions p and q exchanged
Transpose(s, p, q) ==
    [k \in 1..Len(s) |-> IF k = p THEN s[q] ELSE IF k = q THEN s[p] ELSE s[k]]

\* the interaction with its two endpoints exchanged
Flip(x) == [x EXCEPT !.risk1_id = x.risk2_id, !.risk2_id = x.risk1_id]

\* the same inputs again, two risks or two interactions exchanged, or one
\* interaction with its endpoints exchanged
Rearrangements(rs, ins) ==
    {[risks |-> rs, interactions |-> ins]}
    \cup {[risks |-> Transpose(rs, p, q), interactions |-> ins] :
              p \in 1..Len(rs), q \in 1..Len(rs)}
    \cup {[risks |-> rs, interactions |-> Transpose(ins, p, q)] :
              p \in 1..Len(ins), q \in 1..Len(ins)}
    \cup {[risks |-> rs, interactions |-> [ins EXCEPT ![p] = Flip(ins[p])]] :
              p \in 1..Len(ins)}

\* a second call of build_risk_network, on rearranged inputs
Rebuild ==
    /\ pc = "built"
    /\ \E inp \in Rearrangements(risks, risk_interactions) :
         /\ rebuilt_inputs' = inp
         /\ rebuilt_network' = build_risk_network(inp.risks, inp.interactions)
    /\ pc' = "rebuilt"
    /\ UNCHANGED <<risks, i, j, interactions, risk_interactions, risk_network>>
    /\ UNCHANGED analysis_vars

NextRebuild == BuildNetwork \/ Rebuild

SpecRebuild == InitGraph /\ [][NextRebuild]_vars

----------------------------------------------------------------------------
(* The analyzers that read a built graph.  The graphs: every graph on the  *)
(* risks 1..MaxId whose interactions join each pair of risks at most once, *)
(* the four-risk network of the tests, and a network with a self-loop.     *)

\* longest step budget tried besides the default
MaxSteps == 2

\* max_steps: int = 10
DefaultMaxSteps == 10

AnalysisWeights == {Tenths(5), Tenths(8)}

\* the pairs of positions of a list of n risks, in the order of the loops
RECURSIVE PairSeqFrom(_, _, _)
PairSeqFrom(a, b, n) ==
    IF b > n \/ a >= b THEN <<>>
    ELSE <<<<a, b>>>> \o PairSeqFrom(IF b < n THEN a ELSE a + 1,
                                     IF b < n THEN b + 1 ELSE a + 2, n)

\* the interactions of the pairs that f gives a score (0: no interaction)
RECURSIVE Chosen(_, _)
Chosen(ps, f) ==
    IF ps = <<>> THEN <<>>
    ELSE (IF f[Head(ps)] = 0 THEN <<>>
          ELSE <<RiskInteraction(Head(ps)[1], Head(ps)[2], f[Head(ps)],
                                 determine_interaction_type(f[Head(ps)]), <<>>)>>)
         \o Chosen(Tail(ps), f)

AllRisks == [k \in 1..MaxId |-> k]

PairSet == {<<a, b>> \in RiskIds \X RiskIds : a < b}

\* sample_risks and sample_interactions of the tests
FixtureRisks == <<1, 2, 3, 4>>
FixtureInteractions ==
    << RiskInteraction(1, 2, Tenths(7), "Strong", <<>>),
       RiskInteraction(1, 3, Tenths(4), "Moderate", <<>>),
       RiskInteraction(2, 3, Tenths(6), "Moderate", <<>>),
       RiskInteraction(2, 4, Tenths(8), "Strong", <<>>),
       RiskInteraction(3, 4, Tenths(5), "Moderate", <<>>) >>

\* a risk that interacts with itself, in a triangle of ordinary edges
SelfLoopInteractions ==
    << RiskInteraction(1, 1, Tenths(5), "Moderate", <<>>),
       RiskInteraction(1, 2, Tenths(8), "Strong", <<>>),
       RiskInteraction(1, 3, Tenths(5), "Moderate", <<>>),
       RiskInteraction(2, 3, Tenths(8), "Strong", <<>>) >>

AnalysisInputs ==
    {[risks |-> AllRisks, interactions |-> Chosen(PairSeqFrom(1, 2, MaxId), f)] :
         f \in [PairSet -> AnalysisWeights \cup {0}]}
    \cup {[risks |-> FixtureRisks, interactions |-> FixtureInteractions],
          [risks |-> <<1, 2, 3>>, interactions |-> SelfLoopInteractions]}

InitAnalysis ==
    /\ \E inp \in AnalysisInputs :
         /\ risks = inp.risks
         /\ risk_interactions = inp.interactions
    /\ pc = "scored"
    /\ i = 1
    /\ j = 2
    /\ interactions = <<>>
    /\ risk_network = EmptyGraph
    /\ rebuilt_inputs = NoInputs
    /\ rebuilt_network = EmptyGraph
    /\ NoAnalysis

----------------------------------------------------------------------------
(* analyze_risk_cascades.  Activations are fixed-point too: the float a is *)
(* the integer a * ActOne.  Each propagation step multiplies by weights of *)
(* one decimal, and there are fewer productive steps than nodes, so every  *)
(* value is exact in units of 10^-(MaxId+1); the rounding of IEEE doubles  *)
(* is not modelled.                                                        *)

ActOne == 10 ^ (MaxId + 1)

\* threshold: float = 0.5
DefaultThreshold == ActOne \div 2

\* the thresholds tried: a negative one, and the default
Thresholds == {0 - (ActOne \div 10), DefaultThreshold}

StepBudgets == (0..MaxSteps) \cup {DefaultMaxSteps}

\* the elements of a set of numbers, ascending
RECURSIVE Ascending(_)
Ascending(S) ==
    IF S = {} THEN <<>>
    ELSE LET m == CHOOSE x \in S : \A y \in S : x <= y
         IN  <<m>> \o Ascending(S \ {m})

SeedLists(nodes) == {Ascending(S) : S \in SUBSET nodes}
\* no backfill at all
Zeros_None(n) == <<>>

Zeros(n) == [k \in 1..n |-> 0]
\* a neighbour that is not tracked counts as fully active
Latest_Active(cp, nb) == IF nb \in DOMAIN cp THEN cp[nb][Len(cp[nb])] ELSE ActOne

\* cascade_progression.get(neighbor, [0])[-1]
Latest(cp, nb) == IF nb \in DOMAIN cp THEN cp[nb][Len(cp[nb])] ELSE 0

\* influence that ignores the weight of the edge
Influence_Unweighted(G, cp, node, nb) == Latest(cp, nb)

\* activation * G[node][neighbor]['weight'], the weight being k/10
Influence(G, cp, node, nb) ==
    (Latest(cp, nb) * (Weight(G, node, nb) \div Tenths(1))) \div 10

\* sum(... for neighbor in G.neighbors(node))
RECURSIVE SumInfluence(_, _, _, _)
SumInfluence(G, cp, node, nbs) ==
    IF nbs = {} THEN 0
    ELSE LET nb == CHOOSE x \in nbs : TRUE
         IN  Influence(G, cp, node, nb) + SumInfluence(G, cp, node, nbs \ {nb})

neighbor_influence(G, cp, node) == SumInfluence(G, cp, node, Neighbors(G, node))
\* a scan of the nodes in ascending order in which a node activated
\* earlier in the scan already counts for the nodes after it
RECURSIVE ScanInPlace(_, _, _, _, _)
ScanInPlace(G, cp, thr, order, new) ==
    IF order = <<>> THEN new
    ELSE LET node == Head(order)
             seen == [n \in (DOMAIN cp) \cup (DOMAIN new) |->
                         IF n \in DOMAIN new THEN <<new[n]>> ELSE cp[n]]
         IN  ScanInPlace(G, cp, thr, Tail(order),
                 IF node \notin DOMAIN cp /\ neighbor_influence(G, seen, node) > thr
                 THEN [n \in (DOMAIN new) \cup {node} |->
                          IF n = node THEN neighbor_influence(G, seen, node) ELSE new[n]]
                 ELSE new)

new_activations_InPlace(G, cp, thr) == ScanInPlace(G, cp, thr, Ascending(G.nodes), <<>>)

\* activation at the threshold already
new_activations_AtLeast(G, cp, thr) ==
    [node \in {n \in G.nodes : n \notin DOMAIN cp /\ neighbor_influence(G, cp, n) >= thr}
        |-> neighbor_influence(G, cp, node)]

\* lines 93-99: the dict new_activations of one step
new_activations(G, cp, thr) ==
    [node \in {n \in G.nodes : n \notin DOMAIN cp /\ neighbor_influence(G, cp, n) > thr}
        |-> neighbor_influence(G, cp, node)]

\* a loop that runs once more than max_steps
LoopRunning_Inclusive == step <= max_steps

\* line 92: for _ in range(max_steps)
LoopRunning == step < max_steps

\* lines 104-105: the new nodes enter with zeros before their activation,
\* as many as the first series of the dict is long, less one
Inserted(cp, new, len) ==
    [n \in (DOMAIN cp) \cup (DOMAIN new) |->
        IF n \in DOMAIN new THEN Zeros(len - 1) \o <<new[n]>> ELSE cp[n]]
\* series that decay by half at every step
Extended_Decayed(cp) == [n \in DOMAIN cp |-> Append(cp[n], cp[n][Len(cp[n])] \div 2)]

\* series that are not carried forward
Extended_Skipped(cp) == cp

\* lines 107-108: every series repeats its last value
Extended(cp) == [n \in DOMAIN cp |-> Append(cp[n], cp[n][Len(cp[n])])]

\* seeds that start inactive
Seeded_Inactive(seeds) == [n \in Ids(seeds) |-> <<0>>]

\* line 91: {risk: [1.0] for risk in initial_risks}
Seeded(seeds) == [n \in Ids(seeds) |-> <<ActOne>>]

\* line 91: the call, with its arguments
CascadeStart ==
    /\ pc = "built"
    /\ \E seeds \in SeedLists(risk_network.nodes), thr \in Thresholds, ms \in StepBudgets :
         /\ initial_risks' = seeds
         /\ threshold' = thr
         /\ max_steps' = ms
         /\ cascade_progression' = Seeded(seeds)
    /\ step' = 0
    /\ pc' = "cascading"
    /\ UNCHANGED <<risks, i, j, interactions, risk_interactions, risk_network,
                   rebuilt_inputs, rebuilt_network, feedback_loops, trigger_points,
                   resilience_metrics, clusters, correlations,
                   simulation_results>>

\* lines 92-108: one pass of the loop.  With no new activation the loop is
\* left and the dict returned; with an empty dict, next(iter(...)) raises
\* StopIteration.
CascadeStep ==
    /\ pc = "cascading"
    /\ LoopRunning
    /\ LET new == new_activations(risk_network, cascade_progression, threshold)
       IN  IF DOMAIN new = {}
           THEN /\ pc' = "cascaded"
                /\ UNCHANGED <<step, cascade_progression>>
           ELSE IF DOMAIN cascade_progression = {}
           THEN /\ pc' = "raised"
                /\ UNCHANGED <<step, cascade_progression>>
           ELSE /\ \E first \in DOMAIN cascade_progression :
                     cascade_progression' =
                         Extended(Inserted(cascade_progression, new,
                                           Len(cascade_progression[first])))
                /\ step' = step + 1
                /\ pc' = "cascading"
    /\ UNCHANGED <<risks, i, j, interactions, risk_interactions, risk_network,
                   rebuilt_inputs, rebuilt_network, initial_risks, threshold,
                   max_steps, feedback_loops, trigger_points,
                   resilience_metrics, clusters, correlations,
                   simulation_results>>

\* line 110: the loop has run max_steps times
CascadeReturn ==
    /\ pc = "cascading"
    /\ ~LoopRunning
    /\ pc' = "cascaded"
    /\ UNCHANGED <<risks, i, j, interactions, risk_interactions, risk_network,
                   rebuilt_inputs, rebuilt_network, analysis_vars>>

----------------------------------------------------------------------------
(* identify_risk_feedback_loops.  nx.simple_cycles of an undirected graph  *)
(* (networkx 3.1 and later) yields every self-loop as [v] and every simple *)
(* cycle of three or more nodes once, as the list of its nodes in cycle    *)
(* order.  Which node the list starts at, and in which direction it runs,  *)
(* is the library's choice: FindFeedbackLoops takes any.                   *)

\* the simple paths of n nodes
RECURSIVE PathsOfLen(_, _)
PathsOfLen(G, n) ==
    IF n = 1 THEN {<<v>> : v \in G.nodes}
    ELSE UNION {{Append(p, v) : v \in Neighbors(G, p[Len(p)]) \ Ids(p)} :
                    p \in PathsOfLen(G, n - 1)}

\* only the cycles through every node
CyclePaths_Spanning(G) ==
    {p \in PathsOfLen(G, Cardinality(G.nodes)) :
        /\ Len(p) >= 3
        /\ HasEdge(G, p[Len(p)], p[1])
        /\ \A k \in 2..Len(p) : p[1] < p[k]
        /\ p[2] < p[Len(p)]}

\* one list per simple cycle: from its least node, towards the lesser neighbour
CyclePaths(G) ==
    {p \in UNION {PathsOfLen(G, n) : n \in 3..Cardinality(G.nodes)} :
        /\ HasEdge(G, p[Len(p)], p[1])
        /\ \A k \in 2..Len(p) : p[1] < p[k]
        /\ p[2] < p[Len(p)]}

Rotate(p, r) == [k \in 1..Len(p) |-> p[((k - 1 + r) % Len(p)) + 1]]
Reverse(p) == [k \in 1..Len(p) |-> p[Len(p) + 1 - k]]
Written(p, r, flip) == Rotate(IF flip THEN Reverse(p) ELSE p, r)

simple_cycles(G, r, flip) ==
    {<<v>> : v \in {n \in G.nodes : HasEdge(G, n, n)}}
    \cup {Written(p, r, flip) : p \in CyclePaths(G)}

\* a filter that keeps every cycle
LongEnough_Any(loop) == Len(loop) > 0

\* line 123: loops of more than two nodes
LongEnough(loop) == Len(loop) > 2

identify_risk_feedback_loops(cycles) == {loop \in cycles : LongEnough(loop)}

\* a search that takes the edges it has walked out of the graph
FindFeedbackLoops_Clearing ==
    /\ pc = "built"
    /\ \E r \in 0..MaxId, flip \in BOOLEAN :
         feedback_loops' =
             identify_risk_feedback_loops(simple_cycles(risk_network, r, flip))
    /\ risk_network' = [risk_network EXCEPT !.adj = [n \in risk_network.nodes |-> <<>>]]
    /\ pc' = "loops"
    /\ UNCHANGED <<risks, i, j, interactions, risk_interactions,
                   rebuilt_inputs, rebuilt_network, initial_risks, threshold,
                   max_steps, step, cascade_progression, trigger_points,
                   resilience_metrics, clusters, correlations,
                   simulation_results>>

FindFeedbackLoops ==
    /\ pc = "built"
    /\ \E r \in 0..MaxId, flip \in BOOLEAN :
         feedback_loops' =
             identify_risk_feedback_loops(simple_cycles(risk_network, r, flip))
    /\ pc' = "loops"
    /\ UNCHANGED <<risks, i, j, interactions, risk_interactions, risk_network,
                   rebuilt_inputs, rebuilt_network, initial_risks, threshold,
                   max_steps, step, cascade_progression, trigger_points,
                   resilience_metrics, clusters, correlations,
                   simulation_results>>

----------------------------------------------------------------------------
(* identify_trigger_points: the risks with more than two neighbours, each  *)
(* with its neighbours.  identify_relevant_external_factors is called for  *)
(* such a risk only, and max() of an empty external_data raises.           *)

connected_risks(G, rs) ==
    [id \in {n \in Ids(rs) : Cardinality(Neighbors(G, n)) > 2} |-> Neighbors(G, id)]

IdentifyTriggerPoints ==
    /\ pc = "built"
    /\ \E has_external_data \in BOOLEAN :
         LET found == connected_risks(risk_network, risks)
         IN  IF DOMAIN found # {} /\ ~has_external_data
             THEN /\ pc' = "raised"
                  /\ UNCHANGED trigger_points
             ELSE /\ pc' = "triggers"
                  /\ trigger_points' = found
    /\ UNCHANGED <<risks, i, j, interactions, risk_interactions, risk_network,
                   rebuilt_inputs, rebuilt_network, initial_risks, threshold,
                   max_steps, step, cascade_progression, feedback_loops,
                   resilience_metrics, clusters, correlations,
                   simulation_results>>

NextAnalysis ==
    \/ BuildNetwork
    \/ CascadeStart
    \/ CascadeStep
    \/ CascadeReturn
    \/ FindFeedbackLoops
    \/ IdentifyTriggerPoints

SpecAnalysis == InitAnalysis /\ [][NextAnalysis]_vars

----------------------------------------------------------------------------
(* The analyzers of test_network_analysis_edge_cases and of the simulation *)
(* results.  Their inputs: the graphs above and the disconnected network   *)
(* of the test, four risks with the edges 1-2 and 3-4.                     *)

EdgeCaseRisks == <<1, 2, 3, 4>>
EdgeCaseInteractions ==
    << RiskInteraction(1, 2, Tenths(5), "Moderate", <<>>),
       RiskInteraction(3, 4, Tenths(5), "Moderate", <<>>) >>

MetricsInputs ==
    AnalysisInputs
    \cup {[risks |-> EdgeCaseRisks, interactions |-> EdgeCaseInteractions]}

InitMetrics ==
    /\ \E inp \in MetricsInputs :
         /\ risks = inp.risks
         /\ risk_interactions = inp.interactions
    /\ pc = "scored"
    /\ i = 1
    /\ j = 2
    /\ interactions = <<>>
    /\ risk_network = EmptyGraph
    /\ rebuilt_inputs = NoInputs
    /\ rebuilt_network = EmptyGraph
    /\ NoAnalysis

----------------------------------------------------------------------------
(* analyze_network_resilience.  nx.average_shortest_path_length raises     *)
(* NetworkXPointlessConcept for the null graph and NetworkXError for a     *)
(* graph that is not connected; otherwise it is the sum of the weighted    *)
(* distances of the ordered pairs of nodes over n(n-1).  A quotient is     *)
(* kept as the pair <<numerator, denominator>>.  average_clustering and    *)
(* the assortativity coefficient are not computed here.                    *)

\* the simple paths from u to v
PathsBetween(G, u, v) ==
    {p \in UNION {PathsOfLen(G, n) : n \in 1..Cardinality(G.nodes)} :
        p[1] = u /\ p[Len(p)] = v}

\* the weight of a path
RECURSIVE PathWeight(_, _)
PathWeight(G, p) ==
    IF Len(p) < 2 THEN 0
    ELSE Weight(G, p[1], p[2]) + PathWeight(G, Tail(p))

\* the weighted distance of two nodes joined by a path
Distance(G, u, v) ==
    LET ws == {PathWeight(G, p) : p \in PathsBetween(G, u, v)}
    IN  CHOOSE w \in ws : \A x \in ws : w <= x

is_connected(G) ==
    \A u \in G.nodes, v \in G.nodes : PathsBetween(G, u, v) # {}

RECURSIVE SumDistances(_, _)
SumDistances(G, pairs) ==
    IF pairs = {} THEN 0
    ELSE LET e == CHOOSE x \in pairs : TRUE
         IN  Distance(G, e[1], e[2]) + SumDistances(G, pairs \ {e})

\* n == 1 gives 0; otherwise sum over the ordered pairs / (n * (n - 1))
average_shortest_path_length(G) ==
    IF NumNodes(G) = 1 THEN <<0, 1>>
    ELSE <<SumDistances(G, {e \in G.nodes \X G.nodes : e[1] # e[2]}),
           NumNodes(G) * (NumNodes(G) - 1)>>

\* nx.density: 0 for fewer than two nodes, else 2m / (n * (n - 1))
density(G) ==
    IF NumNodes(G) < 2 THEN <<0, 1>>
    ELSE <<2 * NumEdges(G), NumNodes(G) * (NumNodes(G) - 1)>>

AnalyzeNetworkResilience ==
    /\ pc = "built"
    /\ IF risk_network.nodes = {}
       THEN /\ pc' = "NetworkXPointlessConcept"
            /\ UNCHANGED resilience_metrics
       ELSE IF ~is_connected(risk_network)
       THEN /\ pc' = "NetworkXError"
            /\ UNCHANGED resilience_metrics
       ELSE /\ pc' = "resilience"
            /\ resilience_metrics' =
                   [average_shortest_path_length |->
                        average_shortest_path_length(risk_network),
                    graph_density |-> density(risk_network)]
    /\ UNCHANGED <<risks, i, j, interactions, risk_interactions, risk_network,
                   rebuilt_inputs, rebuilt_network, initial_risks, threshold,
                   max_steps, step, cascade_progression, feedback_loops,
                   trigger_points, clusters, correlations,
                   simulation_results>>

----------------------------------------------------------------------------
(* detect_risk_clusters with num_clusters = 2, the call of the test.       *)
(* KMeans starts from two rows of the adjacency matrix as centres (which   *)
(* two is decided by k-means++ with random_state=42: any two rows that     *)
(* differ), then repeats Lloyd's step (label every row by its nearest      *)
(* centre, the first centre on a tie, as argmin does; move each centre to  *)
(* the mean of its rows) until the labels stay.  Weights are counted in    *)
(* tenths, and a centre is kept as <<sum of its rows, number of rows>>, so *)
(* the squared distances are compared exactly.                             *)

\* max_iter of KMeans
MaxIter == 300

\* nx.to_numpy_array(G): one row per node, the edge weights, 0 for no edge
to_numpy_array(G) ==
    [n \in G.nodes |->
        [m \in G.nodes |->
            IF m \in Neighbors(G, n) THEN Weight(G, n, m) \div Tenths(1) ELSE 0]]

\* sum over the columns ms of (cnt * x[m] - sum[m])^2
RECURSIVE SqDistance(_, _, _, _)
SqDistance(x, sum, cnt, ms) ==
    IF ms = {} THEN 0
    ELSE LET m == CHOOSE c \in ms : TRUE
         IN  (cnt * x[m] - sum[m]) * (cnt * x[m] - sum[m])
             + SqDistance(x, sum, cnt, ms \ {m})

\* column m of the rows ns of X, summed
RECURSIVE ColumnSum(_, _, _)
ColumnSum(X, ns, m) ==
    IF ns = {} THEN 0
    ELSE LET n == CHOOSE c \in ns : TRUE
         IN  X[n][m] + ColumnSum(X, ns \ {n}, m)

\* the mean of the rows ns, as sum and count
Centre(X, ns) ==
    [sum |-> [m \in DOMAIN X |-> ColumnSum(X, ns, m)], cnt |-> Cardinality(ns)]

\* the label of row x: the nearer of the two centres, 0 on a tie
Nearest(x, c0, c1) ==
    IF SqDistance(x, c0.sum, c0.cnt, DOMAIN x) * c1.cnt * c1.cnt
           <= SqDistance(x, c1.sum, c1.cnt, DOMAIN x) * c0.cnt * c0.cnt
    THEN 0 ELSE 1

Assign(X, c0, c1) == [n \in DOMAIN X |-> Nearest(X[n], c0, c1)]

Members(labels, k) == {n \in DOMAIN labels : labels[n] = k}

\* Lloyd's iteration from the labels of the previous pass
RECURSIVE Lloyd(_, _, _)
Lloyd(X, labels, iter) ==
    IF iter = 0 \/ Members(labels, 0) = {} \/ Members(labels, 1) = {}
    THEN labels
    ELSE LET next == Assign(X, Centre(X, Members(labels, 0)),
                               Centre(X, Members(labels, 1)))
         IN  IF next = labels THEN labels ELSE Lloyd(X, next, iter - 1)

\* KMeans(n_clusters=2).fit_predict(X), the centres starting at rows a and b
fit_predict(X, a, b) ==
    Lloyd(X, Assign(X, Centre(X, {a}), Centre(X, {b})), MaxIter)

\* the pairs of rows k-means++ can start from
StartingRows(X) ==
    {s \in (DOMAIN X) \X (DOMAIN X) :
        /\ s[1] # s[2]
        /\ X[s[1]] # X[s[2]] \/ \A n \in DOMAIN X, m \in DOMAIN X : X[n] = X[m]}

DetectRiskClusters ==
    /\ pc = "built"
    /\ IF NumNodes(risk_network) < 2
       THEN /\ pc' = "ValueError"
            /\ UNCHANGED clusters
       ELSE /\ \E s \in StartingRows(to_numpy_array(risk_network)) :
                 clusters' = fit_predict(to_numpy_array(risk_network), s[1], s[2])
            /\ pc' = "clustered"
    /\ UNCHANGED <<risks, i, j, interactions, risk_interactions, risk_network,
                   rebuilt_inputs, rebuilt_network, initial_risks, threshold,
                   max_steps, step, cascade_progression, feedback_loops,
                   trigger_points, resilience_metrics, correlations,
                   simulation_results>>

----------------------------------------------------------------------------
(* calculate_risk_correlations.  simulation_results is a dict keyed by     *)
(* risk id; only which ids it has matters here, the coefficients are not   *)
(* computed.  The pairs are visited first id by first id, and the lookup   *)
(* of an id the dict does not have raises KeyError.                        *)

\* the (risk1_id, risk2_id) of the nested loops
PairsInOrder(rs) ==
    {<<rs[e[1]], rs[e[2]]>> : e \in {e \in (1..Len(rs)) \X (1..Len(rs)) : e[1] < e[2]}}

CalculateRiskCorrelations ==
    /\ pc = "built"
    /\ \E simulated \in SUBSET (Ids(risks) \cup {MaxId + 2}) :
         /\ simulation_results' = simulated
         /\ IF \E e \in PairsInOrder(risks) : e[1] \notin simulated \/ e[2] \notin simulated
            THEN /\ pc' = "KeyError"
                 /\ UNCHANGED correlations
            ELSE /\ pc' = "correlated"
                 /\ correlations' = PairsInOrder(risks)
    /\ UNCHANGED <<risks, i, j, interactions, risk_interactions, risk_network,
                   rebuilt_inputs, rebuilt_network, initial_risks, threshold,
                   max_steps, step, cascade_progression, feedback_loops,
                   trigger_points, resilience_metrics, clusters>>

NextMetrics ==
    \/ BuildNetwork
    \/ AnalyzeNetworkResilience
    \/ DetectRiskClusters
    \/ CalculateRiskCorrelations

SpecMetrics == InitMetrics /\ [][NextMetrics]_vars

----------------------------------------------------------------------------
(* conduct_advanced_risk_analysis up to its read of the graph: the scoring *)
(* pass, build_risk_network, identify_trigger_points.                      *)

NextPipeline == Next \/ IdentifyTriggerPoints

SpecPipeline == Init /\ [][NextPipeline]_vars

----------------------------------------------------------------------------
(* Properties *)

Distinct(rs) == \A p \in 1..Len(rs), q \in 1..Len(rs) : p # q => rs[p] # rs[q]

\* the unordered pair an interaction joins
PairOf(x) == {x.risk1_id, x.risk2_id}

Choose2(n) == (n * (n - 1)) \div 2

\* what the data model asks of an interaction list: only ids of the risk
\* set, no risk joined with itself, no unordered pair twice
KnownIds(rs, ins) == \A k \in 1..Len(ins) : PairOf(ins[k]) \subseteq Ids(rs)
NoSelfPair(ins) == \A k \in 1..Len(ins) : ins[k].risk1_id # ins[k].risk2_id
NoDuplicatePair(ins) ==
    \A k \in 1..Len(ins), l \in 1..Len(ins) : k # l => PairOf(ins[k]) # PairOf(ins[l])

\* C1: for risks with pairwise distinct ids, analyze_risk_interactions
\* returns exactly n*(n-1)/2 interactions, one for every unordered pair of
\* distinct risks, none joining a risk with itself and no pair twice.
C1_OnePerUnorderedPair ==
    (pc \in {"scored", "built"} /\ Distinct(risks)) =>
        LET n == Len(risks)
            L == risk_interactions
        IN  /\ Len(L) = Choose2(n)
            /\ \A k \in 1..Len(L) : L[k].risk1_id # L[k].risk2_id
            /\ \A k \in 1..Len(L), l \in 1..Len(L) :
                   k # l => PairOf(L[k]) # PairOf(L[l])
            /\ \A p \in 1..n, q \in 1..n :
                   p < q => \E k \in 1..Len(L) : PairOf(L[k]) = {risks[p], risks[q]}

C1_Witness ==
    /\ pc = "scored"
    /\ Distinct(risks)
    /\ Len(risks) = 3
    /\ Len(risk_interactions) = 3

\* C2: the type of every interaction produced is Weak for a score below
\* 0.3, Moderate for a score from 0.3 up to but not including 0.7, and
\* Strong for a score of 0.7 or more.
C2_TypeOfScore ==
    \A k \in 1..Len(interactions) :
        LET x == interactions[k]
        IN  /\ x.interaction_type \in {"Weak", "Moderate", "Strong"}
            /\ x.interaction_type = "Weak" <=> x.interaction_score < Tenths(3)
            /\ x.interaction_type = "Strong" <=> x.interaction_score >= Tenths(7)

\* the response "0.30" is scored 0.3, on the boundary, and typed Moderate
C2_Witness ==
    /\ pc = "scored"
    /\ Len(risk_interactions) = 1
    /\ risk_interactions[1].analysis = <<"0", ".", "3", "0">>
    /\ risk_interactions[1].interaction_score = Tenths(3)
    /\ risk_interactions[1].interaction_type = "Moderate"

\* A numeric token, as C3 reads it: a decimal numeral with its sign, that
\* is [-+]?(\d*\.\d+|\d+).
UnsignedEnd(t, p) ==
    LET d == DigitRunEnd(t, p)
        e == DigitRunEnd(t, d + 1)
    IN  IF d <= Len(t) /\ t[d] = "." /\ e > d + 1 THEN e
        ELSE IF d > p THEN d ELSE 0

NumeralEnd(t, p) ==
    IF p <= Len(t) /\ t[p] \in Sign /\ UnsignedEnd(t, p + 1) # 0
    THEN UnsignedEnd(t, p + 1)
    ELSE UnsignedEnd(t, p)

RECURSIVE NumeralsFrom(_, _)
NumeralsFrom(t, p) ==
    IF p > Len(t) THEN <<>>
    ELSE LET e == NumeralEnd(t, p)
         IN  IF e # 0 THEN <<SubSeq(t, p, e - 1)>> \o NumeralsFrom(t, e)
             ELSE NumeralsFrom(t, p + 1)

LastNumeralValue(t) ==
    LET ns == NumeralsFrom(t, 1)
    IN  IF ns = <<>> THEN DefaultScore ELSE ToFloat(ns[Len(ns)])

\* C3: the score extracted from a response is the value of the last numeric
\* token of the text, and 0.5 exactly when the text has no numeric token.
C3_LastNumericToken ==
    \A k \in 1..Len(interactions) :
        interactions[k].interaction_score = LastNumeralValue(interactions[k].analysis)

\* C4: every interaction produced by analyze_risk_interactions has a score
\* in [0,1], whatever the oracle answered (stated for risks of distinct ids).
C4_ScoreInUnitInterval ==
    Distinct(risks) =>
        \A k \in 1..Len(interactions) :
            /\ 0 <= interactions[k].interaction_score
            /\ interactions[k].interaction_score <= Scale

\* C5: when an oracle call raises, no interaction list is returned and no
\* graph is built; every list that is returned holds all n*(n-1)/2
\* interactions.
C5_FailureAbortsScoring ==
    /\ pc = "raised" => (risk_interactions = <<>> /\ risk_network = EmptyGraph)
    /\ pc \in {"scored", "built"} => Len(risk_interactions) = Choose2(Len(risks))

\* the second of three oracle calls raised: one interaction was scored,
\* and none is handed on
C5_Witness ==
    /\ pc = "raised"
    /\ Len(risks) = 3
    /\ Len(interactions) = 1
    /\ risk_interactions = <<>>

\* C6: the graph build_risk_network returns for n risks and m interactions
\* has exactly n nodes and m edges (stated for risks of distinct ids and
\* interactions that join two different risks of the list).
C6_NodeAndEdgeCount ==
    (/\ pc = "built"
     /\ Distinct(risks)
     /\ KnownIds(risks, risk_interactions)
     /\ NoSelfPair(risk_interactions)) =>
        /\ NumNodes(risk_network) = Len(risks)
        /\ NumEdges(risk_network) = Len(risk_interactions)

\* C7: build_risk_network returns no graph when an interaction names a risk
\* id that is not in the risk set, and a graph it returns has no node
\* other than the risks (stated for a risk list that is not empty and
\* interactions that join different risks, no pair twice).
C7_UnknownIdRejected ==
    (/\ pc = "built"
     /\ risks # <<>>
     /\ NoSelfPair(risk_interactions)
     /\ NoDuplicatePair(risk_interactions)) =>
        /\ KnownIds(risks, risk_interactions)
        /\ risk_network.nodes \subseteq Ids(risks)

\* C8: build_risk_network returns no graph when two interactions of the
\* list join the same unordered pair with two scores, of which the graph
\* could keep only one (stated for interactions that join two different
\* risks of the list).
C8_DuplicatePairRejected ==
    (/\ pc = "built"
     /\ KnownIds(risks, risk_interactions)
     /\ NoSelfPair(risk_interactions)) =>
        \A k \in 1..Len(risk_interactions), l \in 1..Len(risk_interactions) :
            (k # l /\ PairOf(risk_interactions[k]) = PairOf(risk_interactions[l]))
                => risk_interactions[k].interaction_score =
                       risk_interactions[l].interaction_score

\* the positions of the interactions that join u and v
On(ins, u, v) == {k \in 1..Len(ins) : PairOf(ins[k]) = {u, v}}

Last(S) == CHOOSE k \in S : \A l \in S : l <= k

\* C9: every interaction is an edge of the graph; every edge carries the
\* score and the type of the interaction that joins its two nodes (of the
\* last one in the list, should several join them), and the lookup is
\* symmetric: the edge is read from either end with the same weight and type.
C9_EdgeAttributesSymmetric ==
    pc = "built" =>
        LET G == risk_network
            ins == risk_interactions
        IN  /\ \A k \in 1..Len(ins) : HasEdge(G, ins[k].risk1_id, ins[k].risk2_id)
            /\ \A u \in G.nodes : \A v \in Neighbors(G, u) :
                   /\ HasEdge(G, v, u)
                   /\ Weight(G, u, v) = Weight(G, v, u)
                   /\ EdgeType(G, u, v) = EdgeType(G, v, u)
                   /\ On(ins, u, v) # {}
                   /\ Weight(G, u, v) = ins[Last(On(ins, u, v))].interaction_score
                   /\ EdgeType(G, u, v) = ins[Last(On(ins, u, v))].interaction_type

\* two interactions on two different pairs of risks, of different scores
C9_Witness ==
    /\ pc = "built"
    /\ risks = <<1, 2, 3>>
    /\ Len(risk_interactions) = 2
    /\ PairOf(risk_interactions[1]) = {1, 2}
    /\ PairOf(risk_interactions[2]) = {2, 3}
    /\ Weight(risk_network, 2, 1) = Tenths(4)
    /\ Weight(risk_network, 3, 2) = Tenths(8)
    /\ NumEdges(risk_network) = 2

\* C10: the graph built from the same risks and interactions in another
\* order, or with the endpoints of an interaction exchanged, or a second
\* time from the same inputs, equals the graph built first: same nodes,
\* same edges, same weight and type on every edge (stated for
\* interactions that join two different risks of the list).
C10_OrderIndependent ==
    (/\ pc = "rebuilt"
     /\ KnownIds(risks, risk_interactions)
     /\ NoSelfPair(risk_interactions)) =>
        /\ rebuilt_network.nodes = risk_network.nodes
        /\ Edges(rebuilt_network) = Edges(risk_network)
        /\ rebuilt_network = risk_network

----------------------------------------------------------------------------
(* Properties of the analyzers *)

\* an analyzer is running or about to be called
InAnalyzer == pc \in {"built", "cascading"}

\* C11: no step of analyze_risk_cascades, identify_risk_feedback_loops or
\* identify_trigger_points, whether it returns or raises, changes the nodes,
\* the edges or the edge attributes of the graph, and no step of
\* analyze_risk_cascades changes initial_risks.
C11_AnalyzersLeaveGraph ==
    [][InAnalyzer =>
          /\ risk_network' = risk_network
          /\ (pc = "cascading" => initial_risks' = initial_risks)]_vars

\* each analyzer has run to its end on a graph with edges: the cascade has
\* propagated at least one step, loops and trigger points have been found or
\* the call has raised
C11_Witness ==
    /\ Edges(risk_network) # {}
    /\ \/ pc = "cascaded" /\ step > 0 /\ initial_risks # <<>>
       \/ pc = "loops" /\ feedback_loops # {}
       \/ pc = "triggers" /\ DOMAIN trigger_points # {}

\* the simulation is running or has returned
InCascade == pc \in {"cascading", "cascaded"}

\* C12: while analyze_risk_cascades runs and in what it returns, every
\* member of initial_risks is tracked and its series starts with 1.0,
\* whatever the graph, the threshold and max_steps (0 included).
C12_SeedsStartActive ==
    InCascade =>
        \A seed \in Ids(initial_risks) :
            /\ seed \in DOMAIN cascade_progression
            /\ cascade_progression[seed][1] = ActOne

\* a call with max_steps = 0 has returned its seeds
C12_Witness ==
    /\ pc = "cascaded"
    /\ max_steps = 0
    /\ initial_risks # <<>>
    /\ Edges(risk_network) # {}

\* C13: the simulation never performs more than max_steps propagation
\* steps, every pass of the loop either leaves it or counts one step more
\* (so it terminates), no series is longer than max_steps + 1, and it has
\* returned only after max_steps steps or at a step that activates no node.
C13_HaltsWithinMaxSteps ==
    /\ [](InCascade =>
            /\ step <= max_steps
            /\ \A n \in DOMAIN cascade_progression :
                   Len(cascade_progression[n]) <= max_steps + 1
            /\ (pc = "cascaded" =>
                   \/ step = max_steps
                   \/ \A n \in risk_network.nodes \ DOMAIN cascade_progression :
                          neighbor_influence(risk_network, cascade_progression, n) <= threshold))
    /\ [][pc = "cascading" => pc' # "cascading" \/ step' = step + 1]_vars

\* a simulation cut off by max_steps while a node was still to be activated
C13_Witness ==
    /\ pc = "cascaded"
    /\ step = max_steps
    /\ step > 0
    /\ \E n \in risk_network.nodes \ DOMAIN cascade_progression :
           neighbor_influence(risk_network, cascade_progression, n) > threshold

\* the sum, over the tracked neighbours among the nodes 1..m of node n, of
\* latest activation times edge weight, in activation units
RECURSIVE TrackedInfluence(_, _)
TrackedInfluence(n, m) ==
    IF m = 0 THEN 0
    ELSE TrackedInfluence(n, m - 1)
         + (IF HasEdge(risk_network, n, m) /\ m \in DOMAIN cascade_progression
            THEN (cascade_progression[m][Len(cascade_progression[m])]
                  * Weight(risk_network, n, m)) \div Scale
            ELSE 0)

MaxNode == CHOOSE m \in risk_network.nodes : \A n \in risk_network.nodes : n <= m

\* node n is untracked and its influence is above the threshold
Exceeds(n) ==
    /\ n \notin DOMAIN cascade_progression
    /\ TrackedInfluence(n, MaxNode) > threshold

OrdinaryCall == NoSelfPair(risk_interactions) /\ threshold >= 0

\* C15: a node that a propagation step s >= 1 starts to track has 0.0 at
\* the step indices 0..s-1 of its series and its activation at index s.
\* (Index k of the code is position k + 1 here.)
C15_ZeroBeforeActivation ==
    [][pc = "cascading" /\ pc' = "cascading" /\ OrdinaryCall =>
          \A n \in DOMAIN cascade_progression' \ DOMAIN cascade_progression :
              /\ \A k \in 1..step' : cascade_progression'[n][k] = 0
              /\ cascade_progression'[n][step' + 1] = TrackedInfluence(n, MaxNode)]_vars

\* C16: every value of every series is in [0, 1], the edge weights being
\* in [0, 1].
C16_ActivationInUnitInterval ==
    (/\ InCascade
     /\ OrdinaryCall
     /\ \A e \in Edges(risk_network) : \A u \in e, v \in e :
            HasEdge(risk_network, u, v) =>
                Weight(risk_network, u, v) >= 0 /\ Weight(risk_network, u, v) <= Scale)
    => \A n \in DOMAIN cascade_progression :
           \A k \in 1..Len(cascade_progression[n]) :
               /\ cascade_progression[n][k] >= 0
               /\ cascade_progression[n][k] <= ActOne

\* the call of test_analyze_risk_cascades, max_steps allowing a step
FixtureCall ==
    /\ risks = FixtureRisks
    /\ risk_interactions = FixtureInteractions
    /\ initial_risks = <<1, 2>>
    /\ threshold = DefaultThreshold
    /\ max_steps >= 1

\* C17: on the four-risk network with seeds 1 and 2 and threshold 0.5, the
\* first step activates node 4 with the influence 0.8 of the edge to node 2
\* alone (node 3, its other neighbour, is untracked then and adds 0), which
\* is above 0.5, and the simulation returns after that one step with the
\* four nodes tracked.
C17_FixtureActivatesNode4 ==
    /\ (pc = "cascading" /\ FixtureCall /\ step = 0) =>
           /\ 4 \notin DOMAIN cascade_progression
           /\ 3 \notin DOMAIN cascade_progression
           /\ TrackedInfluence(4, MaxNode) = (8 * ActOne) \div 10
           /\ TrackedInfluence(4, MaxNode) > threshold
    /\ (pc = "cascaded" /\ FixtureCall) =>
           /\ DOMAIN cascade_progression = {1, 2, 3, 4}
           /\ cascade_progression[4][1] = (8 * ActOne) \div 10
           /\ step = 1

\* the call of the test has returned
C17_Witness ==
    /\ pc = "cascaded"
    /\ FixtureCall
    /\ max_steps = DefaultMaxSteps
    /\ 4 \in DOMAIN cascade_progression

\* the node after position k of a loop, the first node after the last
After(loop, k) == loop[(k % Len(loop)) + 1]

\* C18: every returned loop has more than two nodes, and each node of it is
\* joined by an edge of the graph to the next one, the last to the first.
C18_LoopsAreCycles ==
    pc = "loops" =>
        \A loop \in feedback_loops :
            /\ Len(loop) > 2
            /\ \A k \in 1..Len(loop) : HasEdge(risk_network, loop[k], After(loop, k))

\* loops have been returned for a graph that has a self-loop or an edge
\* outside every loop
C18_Witness ==
    /\ pc = "loops"
    /\ feedback_loops # {}
    /\ \E e \in Edges(risk_network) :
           \A loop \in feedback_loops :
               \A k \in 1..Len(loop) : e # {loop[k], After(loop, k)}

\* the sequences of n distinct nodes, each joined to the next and the last
\* to the first
CyclesOfLen(n) ==
    {c \in [1..n -> risk_network.nodes] :
        /\ \A k \in 1..n, l \in 1..n : k # l => c[k] # c[l]
        /\ \A k \in 1..n : HasEdge(risk_network, c[k], After(c, k))}

\* the edges a node sequence walks
EdgesOf(c) == {{c[k], After(c, k)} : k \in 1..Len(c)}

\* C19: every simple cycle of more than two nodes is returned (as some list
\* that walks the same edges); three nodes joined pairwise are the node set
\* of a returned loop; no returned loop is a pair of nodes.
C19_LoopsComplete ==
    pc = "loops" =>
        /\ \A n \in 3..Cardinality(risk_network.nodes) :
               \A c \in CyclesOfLen(n) :
                   \E loop \in feedback_loops : EdgesOf(loop) = EdgesOf(c)
        /\ \A a \in risk_network.nodes, b \in risk_network.nodes, c \in risk_network.nodes :
               (/\ a # b /\ b # c /\ a # c
                /\ HasEdge(risk_network, a, b)
                /\ HasEdge(risk_network, b, c)
                /\ HasEdge(risk_network, a, c))
               => \E loop \in feedback_loops : Ids(loop) = {a, b, c}
        /\ \A loop \in feedback_loops : Len(loop) # 2

\* the loops of the four-risk network: two triangles and the cycle of four
C19_Witness ==
    /\ pc = "loops"
    /\ risks = FixtureRisks
    /\ Cardinality(feedback_loops) = 3
    /\ \E loop \in feedback_loops : Ids(loop) = {1, 2, 3}

\* C20: every returned loop starts and ends with the same node.
C20_LoopsClosed ==
    pc = "loops" =>
        \A loop \in feedback_loops : loop[1] = loop[Len(loop)]

----------------------------------------------------------------------------
(* Properties of the resilience metrics, the clusters and the correlations *)

\* an average path length that is infinite
Infinite == <<1, 0>>

\* every node has an edge to another node
NoIsolatedNode(G) == \A n \in G.nodes : Neighbors(G, n) \ {n} # {}

\* C21: on a graph that is not connected analyze_network_resilience
\* returns, and the average_shortest_path_length it returns is infinite.
C21_DisconnectedIsInfinite ==
    (/\ pc \in {"resilience", "NetworkXError"}
     /\ NoIsolatedNode(risk_network)
     /\ ~is_connected(risk_network))
    => /\ pc = "resilience"
       /\ resilience_metrics.average_shortest_path_length = Infinite

\* u and v are in one component of the graph
SameComponent(G, u, v) == PathsBetween(G, u, v) # {}

\* the components of the graph
Components(G) == {{v \in G.nodes : SameComponent(G, u, v)} : u \in G.nodes}

\* C23: with two clusters, on a graph of two components, two nodes have the
\* same label exactly when they are in the same component.
C23_ClustersAreComponents ==
    (/\ pc = "clustered"
     /\ NoIsolatedNode(risk_network)
     /\ Cardinality(Components(risk_network)) = 2)
    => \A u \in risk_network.nodes, v \in risk_network.nodes :
           clusters[u] = clusters[v] <=> SameComponent(risk_network, u, v)

\* C24: calculate_risk_correlations returns, whether or not every risk has
\* simulation results, and its keys are the pairs (in list order) of the
\* risks that have them.
C24_MissingResultsLeftOut ==
    (/\ pc \in {"correlated", "KeyError"}
     /\ Distinct(risks)
     /\ Cardinality(simulation_results \cap Ids(risks)) >= 2)
    => /\ pc = "correlated"
       /\ correlations =
              {e \in PairsInOrder(risks) :
                   e[1] \in simulation_results /\ e[2] \in simulation_results}

----------------------------------------------------------------------------
(* Properties of the run of conduct_advanced_risk_analysis *)

\* C22: while the pairs are scored and until the list is handed over there
\* is no graph and no trigger point; the graph is built in one step, from
\* the complete list of all n*(n-1)/2 interactions; the trigger points are
\* read from the finished graph; and a run whose scoring raised does
\* nothing more, so it never builds the graph.
C22_GraphBuiltAfterScoring ==
    /\ [](pc \in {"scoring", "scored"} =>
              /\ risk_network = EmptyGraph
              /\ trigger_points = <<>>)
    /\ [][/\ pc # "built" /\ pc' = "built"
              => /\ pc = "scored"
                 /\ risk_interactions = interactions
                 /\ Len(risk_interactions) = Choose2(Len(risks))
                 /\ risk_network' = build_risk_network(risks, risk_interactions)
          /\ pc' = "triggers"
              => /\ pc = "built"
                 /\ risk_network' = risk_network
                 /\ risk_network = build_risk_network(risks, risk_interactions)
          /\ pc = "scoring" /\ pc' = "raised" => risk_network' = EmptyGraph
          /\ pc # "raised"]_vars

\* the trigger points have been read from the graph of three scored risks
C22_Witness ==
    /\ pc = "triggers"
    /\ Len(risks) = 3
    /\ Distinct(risks)
    /\ NumEdges(risk_network) = 3

----------------------------------------------------------------------------
(* Further properties of the analyzers *)

\* C25: when some risk has edges to at least two other risks,
\* identify_trigger_points returns at least one entry; every entry is keyed
\* by a risk id and holds exactly the neighbours of that risk.
C25_TriggerPointsFound ==
    (/\ pc = "triggers"
     /\ NoSelfPair(risk_interactions)
     /\ \E n \in Ids(risks) : Cardinality(Neighbors(risk_network, n) \ {n}) >= 2)
    => /\ DOMAIN trigger_points # {}
       /\ \A id \in DOMAIN trigger_points :
              /\ id \in Ids(risks)
              /\ trigger_points[id] = Neighbors(risk_network, id)

\* the nodes tracked that are not seeds
Latecomers == DOMAIN cascade_progression \ Ids(initial_risks)

\* C26: the series of a seed is 1.0 throughout; in every series, an entry
\* that is not 0.0 is repeated by every later entry (the activation, once
\* recorded, is held); and a propagation step drops no tracked node, keeps
\* the entries it already had and leaves its latest value as it was.
C26_ActivationHeld ==
    /\ [](InCascade =>
              /\ \A n \in Ids(initial_risks) :
                     \A k \in 1..Len(cascade_progression[n]) :
                         cascade_progression[n][k] = ActOne
              /\ \A n \in DOMAIN cascade_progression :
                     \A k \in 1..Len(cascade_progression[n]) :
                         \A l \in k..Len(cascade_progression[n]) :
                             cascade_progression[n][k] # 0 =>
                                 cascade_progression[n][l] = cascade_progression[n][k])
    /\ [][pc = "cascading" =>
              \A n \in DOMAIN cascade_progression :
                  /\ n \in DOMAIN cascade_progression'
                  /\ SubSeq(cascade_progression'[n], 1, Len(cascade_progression[n]))
                         = cascade_progression[n]
                  /\ Latest(cascade_progression', n) = Latest(cascade_progression, n)]_vars

\* two steps have run: a node activated in the first has held its value
\* while a neighbour of it was activated in the second
C26_Witness ==
    /\ pc = "cascaded"
    /\ step = 2
    /\ \E n \in Latecomers, m \in Latecomers :
           /\ HasEdge(risk_network, n, m)
           /\ cascade_progression[n][1] # 0
           /\ cascade_progression[m][1] = 0
           /\ cascade_progression[m][3] # 0

\* C27 as stated: a node that is not a seed has a shorter series than a
\* seed.
C27_LatecomersShorter ==
    (InCascade /\ OrdinaryCall) =>
        \A n \in Latecomers, s \in Ids(initial_risks) :
            Len(cascade_progression[n]) < Len(cascade_progression[s])

\* C27, amended: the series are not of asymmetric length; a node activated
\* in a later step has a series exactly as long as a seed's, the steps
\* before its activation being filled in.
C27_LatecomersAsLongAsSeeds ==
    InCascade =>
        \A n \in Latecomers, s \in Ids(initial_risks) :
            Len(cascade_progression[n]) = Len(cascade_progression[s])

\* a node activated in the second step beside a seed
C27_Witness ==
    /\ InCascade
    /\ step = 2
    /\ initial_risks # <<>>
    /\ \E n \in Latecomers : cascade_progression[n][1] = 0 /\ Latest(cascade_progression, n) # 0

\* C28: after every propagation step and in the result, every series has
\* 1 + step entries, step being the number of steps that activated a node.
C28_SeriesLengthIsSteps ==
    InCascade =>
        \A n \in DOMAIN cascade_progression :
            Len(cascade_progression[n]) = step + 1

\* the loop was left at a step that activated nothing, after two that did
C28_Witness ==
    /\ pc = "cascaded"
    /\ step = 2
    /\ step < max_steps
    /\ Latecomers # {}

\* orders in which the nodes of the graph are visited: ascending and
\* descending, so that every two nodes are met in either order
NodeOrders ==
    {Ascending(risk_network.nodes), Reverse(Ascending(risk_network.nodes))}

\* the activations a scan of the nodes in the given order finds, every
\* influence being taken from the state at the start of the step
RECURSIVE ScanFromStart(_, _)
ScanFromStart(order, new) ==
    IF order = <<>> THEN new
    ELSE LET node == Head(order)
         IN  ScanFromStart(Tail(order),
                 IF Exceeds(node)
                 THEN [n \in (DOMAIN new) \cup {node} |->
                          IF n = node THEN TrackedInfluence(node, MaxNode) ELSE new[n]]
                 ELSE new)

ActivatedAt(n) ==
    IF n \in Ids(initial_risks) THEN 0
    ELSE LET ks == {k \in 1..Len(cascade_progression[n]) : cascade_progression[n][k] # 0}
         IN  IF ks = {} THEN Len(cascade_progression[n]) + 1
             ELSE CHOOSE k \in ks : \A l \in ks : k <= l

\* node n is a seed, or has a neighbour tracked before it that is itself
\* linked to a seed in this way
RECURSIVE ChainToSeed(_)
ChainToSeed(n) ==
    \/ n \in Ids(initial_risks)
    \/ \E m \in Neighbors(risk_network, n) \cap DOMAIN cascade_progression :
           /\ ActivatedAt(m) < ActivatedAt(n)
           /\ ChainToSeed(m)

\* C30: with a threshold that is not negative, every tracked node is a
\* seed or is linked to a seed by a chain of edges through nodes tracked
\* before it, and without seeds nothing is tracked.
C30_OnlyReachableNodes ==
    (InCascade /\ threshold >= 0) =>
        /\ \A n \in DOMAIN cascade_progression : ChainToSeed(n)
        /\ initial_risks = <<>> => DOMAIN cascade_progression = {}

\* a finished simulation that activated a neighbour of a seed and left a
\* node without edges untracked
C30_Witness ==
    /\ pc = "cascaded"
    /\ threshold >= 0
    /\ step >= 1
    /\ Latecomers # {}
    /\ \E n \in risk_network.nodes \ DOMAIN cascade_progression :
           Neighbors(risk_network, n) = {}

====
